---- MODULE Spec2Model ----
(***************************************************************************)
(* tinydbg: packed k-mers (src/src/kmer.rs) and the three de Bruijn graph  *)
(* membership indexes (src/src/dbg.rs).                                    *)
(*                                                                         *)
(* A W-bit unsigned integer (u8 .. u128) is the set of the positions of    *)
(* its one bits, position 0 the least significant: the widths above 32     *)
(* bits do not fit the model checker's integers, and every operation the   *)
(* code uses (shift, and, or, not, minus one, compare) is exact on sets.   *)
(*                                                                         *)
(* Rust arithmetic overflow depends on the build: with overflow checks     *)
(* (debug) an overflowing shift or subtraction panics, without (release)   *)
(* the shift amount wraps modulo the width.  overflow_checks is the build, *)
(* chosen in Init; each operation has a value (the wrapping result) and a  *)
(* _panics predicate.                                                      *)
(***************************************************************************)
EXTENDS Integers, Sequences, FiniteSets, TLC

VARIABLES
    W,                \* backing width of T
    K,                \* const K: usize
    overflow_checks,  \* the build: TRUE = overflow checks on
    aborted,          \* a panic has unwound the program
    call,             \* the last call and what it returned
    bytes,            \* kmer: the input of from_chars
    kmer,             \* kmer: the current IntKmer
    src,              \* kmer: the k-mer from_chars built
    prev,             \* kmer: the k-mer before the last operation
    trail,            \* kmer: the operations applied so far
    stream,           \* iterator: the base stream (KmerIterator.bases), whole
    pos,              \* iterator: how many bases have been taken from it
    it_kmer,          \* iterator: KmerIterator.kmer
    init,             \* iterator: KmerIterator.init
    yielded,          \* iterator: the k-mers next() returned so far
    nones,            \* iterator: how many times next() returned None
    backend,          \* dbg: "Hash" | "Dense" | "Sparse"
    phase,            \* dbg: "builder" | "built"
    data,             \* dbg: the builder's / index's data field
    inserted,         \* dbg: the set of keys passed to insert so far
    ninserts          \* dbg: the number of insert calls so far

vars == <<W, K, overflow_checks, aborted, call, bytes, kmer, src, prev, trail,
          stream, pos, it_kmer, init, yielded, nones,
          backend, phase, data, inserted, ninserts>>

cfgvars == <<W, K, overflow_checks>>
kvars == <<bytes, kmer, src, prev, trail>>
ivars == <<stream, pos, it_kmer, init, yielded, nones>>
dvars == <<backend, phase, data, inserted, ninserts>>

-----------------------------------------------------------------------------
(* Bounds of the model. *)

\* k-mers of at most this many bases are enumerated exhaustively
MaxExhaustK == 4
\* longer k-mers are the periodic ones whose period is at most this
MaxPeriod == 2
\* operations applied to one k-mer after from_chars
MaxOps == 2
\* codes handed to to_char are 0 .. MaxCode
MaxCode == 7
\* length of the base stream handed to the iterator
MaxLen == 5
\* calls of next() after the first None
MaxNones == 2
\* insert calls on one builder / index
MaxInserts == 3
\* inserted keys are the KeySpan lowest and the KeySpan highest of the universe
KeySpan == 2

\* the five instantiations of impl_traits!(u8, u16, u32, u64, u128)
Widths == {8, 16, 32, 64, 128}

-----------------------------------------------------------------------------
(* Option<T> *)

None == <<>>
Some(v) == <<v>>

-----------------------------------------------------------------------------
(* W-bit unsigned integers as sets of bit positions. *)

Pow2(n) == 2 ^ n

\* a word in normal form: its one bits, enumerated
Bits(s) == {i : i \in s}

Min(a, b) == IF a < b THEN a ELSE b

\* the literal n (n < 2^31) as a w-bit integer
FromNat(w, n) == Bits({i \in 0..(Min(w, 31) - 1) : (n \div Pow2(i)) % 2 = 1})

RECURSIVE SumPow2(_)
SumPow2(s) == IF s = {} THEN 0
              ELSE LET i == CHOOSE j \in s : TRUE IN Pow2(i) + SumPow2(s \ {i})

\* x as usize, for x < 2^31
ToNat(x) == SumPow2(x)

\* a hexadecimal literal, its digits most significant first
Hex(digits) == Bits({i \in 0..(4 * Len(digits) - 1) :
                   (digits[Len(digits) - (i \div 4)] \div Pow2(i % 4)) % 2 = 1})

BitNot(w, x) == Bits({i \in 0..(w - 1) : i \notin x})
BitAnd(x, y) == Bits({i \in x : i \in y})
BitOr(w, x, y) == Bits({i \in 0..(w - 1) : i \in x \/ i \in y})
\* x << n and x >> n for n < w
Shl(w, x, n) == {i + n : i \in {j \in x : j + n < w}}
Shr(x, n) == {i - n : i \in {j \in x : j >= n}}
\* a shift by n >= w overflows: it panics under overflow checks, and otherwise
\* shifts by n modulo w
ShiftOverflows(w, n) == n >= w
WrappingShl(w, x, n) == Shl(w, x, n % w)
WrappingShr(w, x, n) == Shr(x, n % w)
\* x - 1, wrapping
Dec(w, x) == IF x = {} THEN Bits(0..(w - 1))
             ELSE LET m == CHOOSE i \in x : \A j \in x : i <= j
                  IN Bits({i \in 0..(w - 1) : i < m \/ (i > m /\ i \in x)})
\* x < y, unsigned
Less(x, y) == \E i \in y : i \notin x /\ \A j \in x : j > i => j \in y

-----------------------------------------------------------------------------
(* trait Base *)

from_char(b) == CASE b = 65 -> Some(0)
                  [] b = 67 -> Some(1)
                  [] b = 71 -> Some(2)
                  [] b = 84 -> Some(3)
                  [] OTHER -> None

to_char(c) == CASE c = 0 -> 65
                [] c = 1 -> 67
                [] c = 2 -> 71
                [] OTHER -> 84

bases == <<0, 1, 2, 3>>

-----------------------------------------------------------------------------
(* impl Kmer<K, $t> for IntKmer<K, $t> *)

from_int(s) == s
to_int(k) == k
empty == from_int({})

\* (1 << (2 * K)) - 1 in $t
mask_panics(w, k, checks) == checks /\ ShiftOverflows(w, 2 * k)
mask(w, k) == Dec(w, WrappingShl(w, FromNat(w, 1), 2 * k))

extend(w, x, base) == from_int(BitOr(w, Shl(w, to_int(x), 2), FromNat(w, base)))

append_panics(w, k, checks) == mask_panics(w, k, checks)
append(w, k, x, base) ==
    from_int(BitAnd(BitOr(w, Shl(w, to_int(x), 2), FromNat(w, base)), mask(w, k)))

\* Kmer::successors: T::bases().map(|base| self.append(base))
successors(w, k, x) == [i \in 1..4 |-> append(w, k, x, bases[i])]

\* bytes.iter().filter_map(|&b| T::from_char(b)): the valid bases among bs, in order
is_base(b) == from_char(b) # None
filter_map(bs) == LET kept == SelectSeq(bs, is_base)
                  IN [i \in 1..Len(kept) |-> from_char(kept[i])[1]]

take(n, s) == SubSeq(s, 1, Min(n, Len(s)))

\* acc.extend(cs[1]).extend(cs[2]) ..: the fold of from_chars, the priming loop
\* of KmerIterator::next. One extend per base, in order; the fold over cs is
\* the fold over its second half started from the fold over its first half.
RECURSIVE fold_extend(_, _, _)
fold_extend(w, acc, cs) ==
    IF cs = <<>> THEN acc
    ELSE IF Len(cs) = 1 THEN extend(w, acc, cs[1])
    ELSE LET h == Len(cs) \div 2
             \* the k-mer after the first half, computed before the second starts
             mid == {fold_extend(w, acc, SubSeq(cs, 1, h))}
         IN CHOOSE r \in {fold_extend(w, a, SubSeq(cs, h + 1, Len(cs))) : a \in mid} : TRUE

from_chars(w, k, bs) == fold_extend(w, empty, take(k, filter_map(bs)))

\* for i in 0..K { res[K - i - 1] = (s & 0b11).to_char(); s >>= 2; }
\* in round i, s is the k-mer shifted right by 2 * i
to_chars(k, x) ==
    [j \in 1..k |-> to_char(ToNat(BitAnd(Shr(to_int(x), 2 * (k - j)), FromNat(2, 3))))]

-----------------------------------------------------------------------------
(* impl Canonical<K, uN> for IntKmer<K, uN> *)

\* one stage: (res >> n & m) | (res & m) << n
swap(w, res, n, m) == BitOr(w, BitAnd(Shr(res, n), m), Shl(w, BitAnd(res, m), n))

\* res >> (2 * (W/2 - K)): the subtraction is on usize and overflows for
\* K > W/2; without overflow checks it wraps, and so does the shift amount
final_shift_panics(w, k, checks) == checks /\ k > w \div 2
\* mutant: the padding counted in bits, not in 2-bit bases
final_shift_bases(w, k, res) == WrappingShr(w, res, ((w \div 2) - k) % w)
final_shift(w, k, res) == WrappingShr(w, res, (2 * ((w \div 2) - k)) % w)

\* the masks of the swap stages: 0x33.., 0x0F.., 0x00FF.., .. at each width
M8_2 == Hex(<<3, 3>>)
M8_4 == Hex(<<0, 15>>)
M16_2 == Hex(<<3, 3, 3, 3>>)
M16_4 == Hex(<<0, 15, 0, 15>>)
M16_8 == Hex(<<0, 0, 15, 15>>)
M32_2 == Hex(<<3, 3, 3, 3, 3, 3, 3, 3>>)
M32_4 == Hex(<<0, 15, 0, 15, 0, 15, 0, 15>>)
M32_8 == Hex(<<0, 0, 15, 15, 0, 0, 15, 15>>)
M32_16 == Hex(<<0, 0, 0, 0, 15, 15, 15, 15>>)
M64_2 == Hex(<<3, 3, 3, 3, 3, 3, 3, 3, 3, 3, 3, 3, 3, 3, 3, 3>>)
M64_4 == Hex(<<0, 15, 0, 15, 0, 15, 0, 15, 0, 15, 0, 15, 0, 15, 0, 15>>)
M64_8 == Hex(<<0, 0, 15, 15, 0, 0, 15, 15, 0, 0, 15, 15, 0, 0, 15, 15>>)
M64_16 == Hex(<<0, 0, 0, 0, 15, 15, 15, 15, 0, 0, 0, 0, 15, 15, 15, 15>>)
M64_32 == Hex(<<0, 0, 0, 0, 0, 0, 0, 0, 15, 15, 15, 15, 15, 15, 15, 15>>)
M128_2 == Hex(<<3, 3, 3, 3, 3, 3, 3, 3, 3, 3, 3, 3, 3, 3, 3, 3,
                3, 3, 3, 3, 3, 3, 3, 3, 3, 3, 3, 3, 3, 3, 3, 3>>)
M128_4 == Hex(<<0, 15, 0, 15, 0, 15, 0, 15, 0, 15, 0, 15, 0, 15, 0, 15,
                0, 15, 0, 15, 0, 15, 0, 15, 0, 15, 0, 15, 0, 15, 0, 15>>)
M128_8 == Hex(<<0, 0, 15, 15, 0, 0, 15, 15, 0, 0, 15, 15, 0, 0, 15, 15,
                0, 0, 15, 15, 0, 0, 15, 15, 0, 0, 15, 15, 0, 0, 15, 15>>)
M128_16 == Hex(<<0, 0, 0, 0, 15, 15, 15, 15, 0, 0, 0, 0, 15, 15, 15, 15,
                 0, 0, 0, 0, 15, 15, 15, 15, 0, 0, 0, 0, 15, 15, 15, 15>>)
M128_32 == Hex(<<0, 0, 0, 0, 0, 0, 0, 0, 15, 15, 15, 15, 15, 15, 15, 15,
                 0, 0, 0, 0, 0, 0, 0, 0, 15, 15, 15, 15, 15, 15, 15, 15>>)
M128_64 == Hex(<<0, 0, 0, 0, 0, 0, 0, 0, 0, 0, 0, 0, 0, 0, 0, 0,
                 15, 15, 15, 15, 15, 15, 15, 15, 15, 15, 15, 15, 15, 15, 15, 15>>)

rev_comp_u8(k, x) ==
    LET r0 == BitNot(8, to_int(x))
        r1 == swap(8, r0, 2, M8_2)
        r2 == swap(8, r1, 4, M8_4)
    IN from_int(final_shift(8, k, r2))

rev_comp_u16(k, x) ==
    LET r0 == BitNot(16, to_int(x))
        r1 == swap(16, r0, 2, M16_2)
        r2 == swap(16, r1, 4, M16_4)
        r3 == swap(16, r2, 8, M16_8)
    IN from_int(final_shift(16, k, r3))

rev_comp_u32(k, x) ==
    LET r0 == BitNot(32, to_int(x))
        r1 == swap(32, r0, 2, M32_2)
        r2 == swap(32, r1, 4, M32_4)
        r3 == swap(32, r2, 8, M32_8)
        r4 == swap(32, r3, 16, M32_16)
    IN from_int(final_shift(32, k, r4))

rev_comp_u64(k, x) ==
    LET r0 == BitNot(64, to_int(x))
        r1 == swap(64, r0, 2, M64_2)
        r2 == swap(64, r1, 4, M64_4)
        r3 == swap(64, r2, 8, M64_8)
        r4 == swap(64, r3, 16, M64_16)
        r5 == swap(64, r4, 32, M64_32)
    IN from_int(final_shift(64, k, r5))

rev_comp_u128(k, x) ==
    LET r0 == BitNot(128, to_int(x))
        r1 == swap(128, r0, 2, M128_2)
        r2 == swap(128, r1, 4, M128_4)
        r3 == swap(128, r2, 8, M128_8)
        r4 == swap(128, r3, 16, M128_16)
        r5 == swap(128, r4, 32, M128_32)
        r6 == swap(128, r5, 64, M128_64)
    IN from_int(final_shift(128, k, r6))

rev_comp_panics(w, k, checks) == final_shift_panics(w, k, checks)
rev_comp(w, k, x) == CASE w = 8 -> rev_comp_u8(k, x)
                       [] w = 16 -> rev_comp_u16(k, x)
                       [] w = 32 -> rev_comp_u32(k, x)
                       [] w = 64 -> rev_comp_u64(k, x)
                       [] w = 128 -> rev_comp_u128(k, x)

\* mutant: the comparison reversed
canonical_larger(w, k, x) == LET rc == rev_comp(w, k, x)
                             IN IF Less(to_int(rc), to_int(x)) THEN x ELSE rc
\* if self.to_int() < rc.to_int() { self } else { rc }
canonical(w, k, x) == LET rc == rev_comp(w, k, x)
                      IN IF Less(to_int(x), to_int(rc)) THEN x ELSE rc

-----------------------------------------------------------------------------
(* Configurations and inputs. *)

\* K ranges over the valid lengths 1 .. W/2 and the first invalid one
KChoices(w) == 1..((w \div 2) + 1)

\* The two builds differ only where a shift or a subtraction overflows, which
\* takes 2K >= W: below that one build stands for both.
Builds(w, k) == IF 2 * k >= w THEN BOOLEAN ELSE {FALSE}

\* b'A', b'C', b'G', b'T'
ValidChars == {65, 67, 71, 84}

Periodic(p, n) == [i \in 1..n |-> p[((i - 1) % Len(p)) + 1]]

\* the inputs of from_chars for a k-mer of k bases: every string of k valid
\* characters for k <= MaxExhaustK, the periodic ones beyond
KmerInputs(k) ==
    LET period == IF k <= MaxExhaustK THEN k ELSE Min(k, MaxPeriod)
    IN {Periodic(p, k) : p \in [1..period -> ValidChars]}

Idle == "idle"
NoCall == [op |-> "none"]

IdleKmer == /\ bytes = <<>> /\ kmer = {} /\ src = {} /\ prev = {} /\ trail = <<>>
IdleIter == /\ stream = <<>> /\ pos = 0 /\ it_kmer = {} /\ init = FALSE
            /\ yielded = <<>> /\ nones = 0
IdleDbg == /\ backend = Idle /\ phase = Idle /\ data = {} /\ inserted = {}
           /\ ninserts = 0

-----------------------------------------------------------------------------
(* SpecKmer: one k-mer built by from_chars, then operated on. *)

InitKmer ==
    /\ W \in Widths
    /\ K \in KChoices(W)
    /\ overflow_checks \in Builds(W, K)
    /\ aborted = FALSE
    /\ call = NoCall
    /\ bytes \in KmerInputs(K)
    /\ kmer = empty /\ src = empty /\ prev = empty
    /\ trail = <<>>
    /\ IdleIter /\ IdleDbg

\* let kmer = IntKmer::<K, T>::from_chars(bytes)
FromChars ==
    /\ ~aborted /\ trail = <<>>
    /\ kmer' = from_chars(W, K, bytes)
    /\ src' = kmer'
    /\ prev' = kmer
    /\ trail' = <<"from_chars">>
    /\ call' = [op |-> "from_chars"]
    /\ UNCHANGED <<cfgvars, aborted, bytes, ivars, dvars>>

\* A k-mer that rev_comp or canonical returned is operated on again, up to
\* MaxOps operations; one that append returned is again one of the inputs.
CanOperate == /\ ~aborted /\ trail # <<>> /\ Len(trail) <= MaxOps
              /\ trail[Len(trail)] \in {"from_chars", "rev_comp", "canonical"}

\* kmer = kmer.rev_comp()
RevComp ==
    /\ CanOperate
    /\ IF rev_comp_panics(W, K, overflow_checks)
       THEN /\ aborted' = TRUE
            /\ UNCHANGED <<kmer, prev>>
       ELSE /\ kmer' = rev_comp(W, K, kmer)
            /\ prev' = kmer
            /\ UNCHANGED aborted
    /\ trail' = Append(trail, "rev_comp")
    /\ call' = [op |-> "rev_comp"]
    /\ UNCHANGED <<cfgvars, bytes, src, ivars, dvars>>

\* kmer = kmer.canonical()
Canonical ==
    /\ CanOperate
    /\ IF rev_comp_panics(W, K, overflow_checks)
       THEN /\ aborted' = TRUE
            /\ UNCHANGED <<kmer, prev>>
       ELSE /\ kmer' = canonical(W, K, kmer)
            /\ prev' = kmer
            /\ UNCHANGED aborted
    /\ trail' = Append(trail, "canonical")
    /\ call' = [op |-> "canonical"]
    /\ UNCHANGED <<cfgvars, bytes, src, ivars, dvars>>

\* kmer = kmer.append(base)
AppendBase ==
    /\ CanOperate
    /\ \E base \in 0..3 :
        /\ IF append_panics(W, K, overflow_checks)
           THEN /\ aborted' = TRUE
                /\ UNCHANGED <<kmer, prev>>
           ELSE /\ kmer' = append(W, K, kmer, base)
                /\ prev' = kmer
                /\ UNCHANGED aborted
        /\ call' = [op |-> "append", base |-> base]
    /\ trail' = Append(trail, "append")
    /\ UNCHANGED <<cfgvars, bytes, src, ivars, dvars>>

\* kmer.to_chars()
ToChars ==
    /\ CanOperate
    /\ call' = [op |-> "to_chars", res |-> to_chars(K, kmer)]
    /\ trail' = Append(trail, "to_chars")
    /\ UNCHANGED <<cfgvars, aborted, bytes, kmer, src, prev, ivars, dvars>>

NextKmer == FromChars \/ RevComp \/ Canonical \/ AppendBase \/ ToChars

SpecKmer == InitKmer /\ [][NextKmer]_vars

-----------------------------------------------------------------------------
(* SpecCodec: from_char and to_char, alone and one after the other. *)

InitCodec ==
    /\ W = 8 /\ K = 1 /\ overflow_checks \in BOOLEAN
    /\ aborted = FALSE
    /\ call = NoCall
    /\ IdleKmer /\ IdleIter /\ IdleDbg

\* T::from_char(b) for any byte b
FromCharCall ==
    /\ call.op = "none"
    /\ \E b \in 0..255 :
        call' = [op |-> "from_char", arg |-> b, res |-> from_char(b), first |-> NoCall]
    /\ UNCHANGED <<cfgvars, aborted, kvars, ivars, dvars>>

\* code.to_char() for any code of type T
ToCharCall ==
    /\ call.op = "none"
    /\ \E c \in 0..MaxCode :
        call' = [op |-> "to_char", arg |-> c, res |-> to_char(c), first |-> NoCall]
    /\ UNCHANGED <<cfgvars, aborted, kvars, ivars, dvars>>

\* T::from_char(b).map(|c| c.to_char())
ToCharOfDecoded ==
    /\ call.op = "from_char" /\ call.first = NoCall /\ call.res # None
    /\ call' = [op |-> "to_char", arg |-> call.res[1], res |-> to_char(call.res[1]),
                first |-> call]
    /\ UNCHANGED <<cfgvars, aborted, kvars, ivars, dvars>>

\* T::from_char(code.to_char())
FromCharOfEncoded ==
    /\ call.op = "to_char" /\ call.first = NoCall
    /\ call' = [op |-> "from_char", arg |-> call.res, res |-> from_char(call.res),
                first |-> call]
    /\ UNCHANGED <<cfgvars, aborted, kvars, ivars, dvars>>

NextCodec == FromCharCall \/ ToCharCall \/ ToCharOfDecoded \/ FromCharOfEncoded

SpecCodec == InitCodec /\ [][NextCodec]_vars

-----------------------------------------------------------------------------
(* SpecIter: IntKmer::<K, T>::iter_from_chars(bytes), then next() until it  *)
(* has returned None a few times.                                           *)

\* the iterator is exercised on the two narrow widths
IterWidths == {8, 16}

\* the four bases and b'N'
IterChars == ValidChars \cup {78}

Strings(chars, n) == UNION {[1..l -> chars] : l \in 0..n}

\* iter_from_chars(bytes) = iter_from_bases(bytes.filter_map(T::from_char))
InitIter ==
    /\ W \in IterWidths
    /\ K \in 1..(W \div 2)
    /\ overflow_checks \in Builds(W, K)
    /\ aborted = FALSE
    /\ call = NoCall
    /\ bytes \in Strings(IterChars, MaxLen)
    /\ stream = filter_map(bytes)
    /\ pos = 0
    /\ it_kmer = empty
    /\ init = FALSE
    /\ yielded = <<>>
    /\ nones = 0
    /\ kmer = {} /\ src = {} /\ prev = {} /\ trail = <<>>
    /\ IdleDbg

\* KmerIterator::next
IterNext ==
    /\ ~aborted /\ nones <= MaxNones
    /\ IF ~init
       THEN /\ init' = TRUE
            /\ IF Len(stream) - pos >= K
               THEN \* the loop took K bases
                    /\ it_kmer' = fold_extend(W, it_kmer, SubSeq(stream, pos + 1, pos + K))
                    /\ pos' = pos + K
                    /\ yielded' = Append(yielded, it_kmer')
                    /\ call' = [op |-> "next", res |-> Some(it_kmer')]
                    /\ UNCHANGED <<nones, aborted>>
               ELSE \* the stream ran out inside the loop: return None
                    /\ it_kmer' = fold_extend(W, it_kmer, SubSeq(stream, pos + 1, Len(stream)))
                    /\ pos' = Len(stream)
                    /\ nones' = nones + 1
                    /\ call' = [op |-> "next", res |-> None]
                    /\ UNCHANGED <<yielded, aborted>>
       ELSE /\ UNCHANGED init
            /\ IF pos < Len(stream)
               THEN IF append_panics(W, K, overflow_checks)
                    THEN /\ aborted' = TRUE
                         /\ pos' = pos + 1
                         /\ call' = [op |-> "next", panic |-> TRUE]
                         /\ UNCHANGED <<it_kmer, yielded, nones>>
                    ELSE /\ it_kmer' = append(W, K, it_kmer, stream[pos + 1])
                         /\ pos' = pos + 1
                         /\ yielded' = Append(yielded, it_kmer')
                         /\ call' = [op |-> "next", res |-> Some(it_kmer')]
                         /\ UNCHANGED <<nones, aborted>>
               ELSE /\ nones' = nones + 1
                    /\ call' = [op |-> "next", res |-> None]
                    /\ UNCHANGED <<it_kmer, pos, yielded, aborted>>
    /\ UNCHANGED <<cfgvars, bytes, stream, kmer, src, prev, trail, dvars>>

NextIter == IterNext

SpecIter == InitIter /\ [][NextIter]_vars

-----------------------------------------------------------------------------
(* src/src/dbg.rs.  The three indexes hold what the sucds and std types    *)
(* hold: HashSet<T> and BTreeSet<T> are sets, BitVector is a function from  *)
(* positions to bits, EliasFano is the sorted sequence of its values with   *)
(* its universe (rank and select as sucds documents them).                  *)

\* 1 << (2 * K) on usize
Universe(k) == 2 ^ (2 * k)

\* BitVector::from_bit(bit, len), get_bit, set_bit
BitVector_from_bit(bit, len) == [i \in 0..(len - 1) |-> bit]
BitVector_get_bit(bv, p) == IF p \in DOMAIN bv THEN Some(bv[p]) ELSE None
BitVector_set_bit_fails(bv, p) == p \notin DOMAIN bv
BitVector_set_bit(bv, p, bit) == [bv EXCEPT ![p] = bit]

\* BTreeSet::iter: the elements in increasing order
RECURSIVE SortedSeq(_)
SortedSeq(ns) == IF ns = {} THEN <<>>
                 ELSE LET m == CHOOSE x \in ns : \A y \in ns : x <= y
                      IN <<m>> \o SortedSeq(ns \ {m})

\* EliasFanoBuilder::new(universe, num_vals) is Err for num_vals = 0, and
\* extend is Err for a value >= universe
EliasFanoBuilder_fails(universe, vals) ==
    Len(vals) = 0 \/ \E i \in 1..Len(vals) : vals[i] >= universe
EliasFano_build(universe, vals) == [universe |-> universe, vals |-> vals]
\* mutant: rank counts the values <= pos
EliasFano_rank_le(ef, p) ==
    IF ef.universe < p THEN None
    ELSE Some(Cardinality({i \in 1..Len(ef.vals) : ef.vals[i] <= p}))
\* EliasFano::rank(pos): the number of values < pos, None for pos > universe
EliasFano_rank(ef, p) ==
    IF ef.universe < p THEN None
    ELSE Some(Cardinality({i \in 1..Len(ef.vals) : ef.vals[i] < p}))
\* EliasFano::select(k): the k-th smallest value, from 0; None for k >= len
EliasFano_select(ef, k) == IF Len(ef.vals) <= k THEN None ELSE Some(ef.vals[k + 1])

HashDbg_new == {}
HashDbg_insert(d, x) == d \cup {to_int(x)}
HashDbg_build(d) == d
HashDbg_contains(d, x) == to_int(x) \in d

DenseDbg_new(k) == BitVector_from_bit(FALSE, Universe(k))
DenseDbg_insert_panics(d, x) == BitVector_set_bit_fails(d, ToNat(to_int(x)))
DenseDbg_insert(d, x) == BitVector_set_bit(d, ToNat(to_int(x)), TRUE)
DenseDbg_build(d) == d
DenseDbg_contains_panics(d, x) == BitVector_get_bit(d, ToNat(to_int(x))) = None
DenseDbg_contains(d, x) == BitVector_get_bit(d, ToNat(to_int(x)))[1]

SparseDbgBuilder_new == {}
SparseDbgBuilder_insert(positions, x) == positions \cup {to_int(x)}
SparseDbgBuilder_build_panics(k, positions) ==
    EliasFanoBuilder_fails(Universe(k), SortedSeq({ToNat(x) : x \in positions}))
SparseDbgBuilder_build(k, positions) ==
    EliasFano_build(Universe(k), SortedSeq({ToNat(x) : x \in positions}))
SparseDbg_contains(d, x) ==
    LET p == ToNat(to_int(x))
        rank == EliasFano_rank(d, p)
    IN IF rank # None THEN EliasFano_select(d, rank[1]) = Some(p) ELSE FALSE

Backends == {"Hash", "Dense", "Sparse"}

\* HashDbgBuilder and DenseDbgBuilder are type aliases of HashDbg and DenseDbg:
\* the value build() returns is a builder too
IsAlias(b) == b \in {"Hash", "Dense"}

Dbg_new(b, k) == CASE b = "Hash" -> HashDbg_new
                   [] b = "Dense" -> DenseDbg_new(k)
                   [] b = "Sparse" -> SparseDbgBuilder_new
Dbg_insert_panics(b, d, x) == b = "Dense" /\ DenseDbg_insert_panics(d, x)
Dbg_insert(b, d, x) == CASE b = "Hash" -> HashDbg_insert(d, x)
                         [] b = "Dense" -> DenseDbg_insert(d, x)
                         [] b = "Sparse" -> SparseDbgBuilder_insert(d, x)
Dbg_build_panics(b, k, d) == b = "Sparse" /\ SparseDbgBuilder_build_panics(k, d)
Dbg_build(b, k, d) == CASE b = "Hash" -> HashDbg_build(d)
                        [] b = "Dense" -> DenseDbg_build(d)
                        [] b = "Sparse" -> SparseDbgBuilder_build(k, d)
Dbg_contains_panics(b, d, x) == b = "Dense" /\ DenseDbg_contains_panics(d, x)
Dbg_contains(b, d, x) == CASE b = "Hash" -> HashDbg_contains(d, x)
                           [] b = "Dense" -> DenseDbg_contains(d, x)
                           [] b = "Sparse" -> SparseDbg_contains(d, x)

\* Dbg::successors: kmer.successors().into_iter().filter(|&s| self.contains(s))
Dbg_successors_panics(b, d, w, k, checks) == append_panics(w, k, checks)
Dbg_successors(b, d, w, k, x) ==
    LET present(s) == Dbg_contains(b, d, s)
    IN SelectSeq(successors(w, k, x), present)

-----------------------------------------------------------------------------
(* SpecDbg: one builder; insert, build, then contains and successors.      *)

\* the indexes are exercised on u8, K = 1 .. 4
DbgWidths == {8}

\* the keys handed to insert: the lowest and the highest of the universe
InsertKeys(k) == {key \in 0..(Universe(k) - 1) :
                     key < KeySpan \/ key >= Universe(k) - KeySpan}

InitDbg ==
    /\ W \in DbgWidths
    /\ K \in 1..(W \div 2)
    /\ overflow_checks \in Builds(W, K)
    /\ aborted = FALSE
    /\ call = [op |-> "new"]
    /\ backend \in Backends
    /\ phase = "builder"
    /\ data = Dbg_new(backend, K)
    /\ inserted = {}
    /\ ninserts = 0
    /\ IdleKmer /\ IdleIter

\* builder = builder.insert(IntKmer::from_int(key)); for Hash and Dense the
\* built index has the same method
Insert ==
    /\ ~aborted /\ ninserts < MaxInserts
    /\ phase = "builder" \/ IsAlias(backend)
    /\ \E key \in InsertKeys(K) :
        LET x == from_int(FromNat(W, key))
        IN /\ IF Dbg_insert_panics(backend, data, x)
              THEN aborted' = TRUE /\ UNCHANGED data
              ELSE data' = Dbg_insert(backend, data, x) /\ UNCHANGED aborted
           /\ inserted' = inserted \cup {key}
           /\ call' = [op |-> "insert", key |-> key]
    /\ ninserts' = ninserts + 1
    /\ UNCHANGED <<cfgvars, backend, phase, kvars, ivars>>

\* let dbg = builder.build()
Build ==
    /\ ~aborted
    /\ phase = "builder"
    /\ IF Dbg_build_panics(backend, K, data)
       THEN aborted' = TRUE /\ UNCHANGED <<data, phase>>
       ELSE /\ data' = Dbg_build(backend, K, data)
            /\ phase' = "built"
            /\ UNCHANGED aborted
    /\ call' = [op |-> "build"]
    /\ UNCHANGED <<cfgvars, backend, inserted, ninserts, kvars, ivars>>

\* contains and successors take &self and leave the index as it is: each
\* index reached is queried once, with every key
Fresh == call.op \in {"build", "insert"}

\* dbg.contains(IntKmer::from_int(key))
Contains ==
    /\ ~aborted /\ phase = "built" /\ Fresh
    /\ \E key \in 0..(Universe(K) - 1) :
        LET x == from_int(FromNat(W, key))
        IN IF Dbg_contains_panics(backend, data, x)
           THEN aborted' = TRUE /\ call' = [op |-> "contains", key |-> key]
           ELSE /\ call' = [op |-> "contains", key |-> key,
                            res |-> Dbg_contains(backend, data, x)]
                /\ UNCHANGED aborted
    /\ UNCHANGED <<cfgvars, dvars, kvars, ivars>>

\* dbg.successors(IntKmer::from_int(key)), the result as integers
Successors ==
    /\ ~aborted /\ phase = "built" /\ Fresh
    /\ \E key \in 0..(Universe(K) - 1) :
        LET x == from_int(FromNat(W, key))
            found == Dbg_successors(backend, data, W, K, x)
        IN IF Dbg_successors_panics(backend, data, W, K, overflow_checks)
           THEN aborted' = TRUE /\ call' = [op |-> "successors", key |-> key]
           ELSE /\ call' = [op |-> "successors", key |-> key,
                            res |-> [i \in 1..Len(found) |-> ToNat(to_int(found[i]))]]
                /\ UNCHANGED aborted
    /\ UNCHANGED <<cfgvars, dvars, kvars, ivars>>

NextDbg == Insert \/ Build \/ Contains \/ Successors

SpecDbg == InitDbg /\ [][NextDbg]_vars

-----------------------------------------------------------------------------
(* What the claims about k-mers are stated against: a k-mer as the sequence *)
(* of its K base codes, leftmost base first.                                *)

Last(s) == s[Len(s)]

CodeOf(ch) == CASE ch = 65 -> 0 [] ch = 67 -> 1 [] ch = 71 -> 2 [] ch = 84 -> 3
CharOf(c) == CASE c = 0 -> 65 [] c = 1 -> 67 [] c = 2 -> 71 [] c = 3 -> 84

\* base j (1 = leftmost) sits in bits 2(k-j)+1 and 2(k-j)
Pack(k, cs) == {i \in 0..(2 * k - 1) :
                   LET c == cs[k - (i \div 2)]
                   IN IF i % 2 = 0 THEN c \in {1, 3} ELSE c \in {2, 3}}
Unpack(k, x) == [j \in 1..k |->
                   (IF 2 * (k - j) \in x THEN 1 ELSE 0)
                   + (IF 2 * (k - j) + 1 \in x THEN 2 ELSE 0)]
IsKmer(k, x) == \A i \in x : i < 2 * k

\* reversed, every base complemented (A<->T, C<->G: code 3 - c)
RevCompBases(cs) == [j \in 1..Len(cs) |-> 3 - cs[Len(cs) + 1 - j]]
RevCompOf(k, x) == Pack(k, RevCompBases(Unpack(k, x)))

\* the numerically smaller of two packed integers
Smaller(x, y) ==
    IF x = y THEN x
    ELSE LET top == CHOOSE i \in (x \ y) \cup (y \ x) :
                       \A j \in (x \ y) \cup (y \ x) : j <= i
         IN IF top \in y THEN x ELSE y

\* the k bases of x without the oldest, then base: (4x + base) mod 4^k
SlideOf(k, x, base) ==
    Pack(k, [j \in 1..k |-> IF j < k THEN Unpack(k, x)[j + 1] ELSE base])

ValidConfig == 2 * K <= W

(* C6: for every width and every K with 2K <= W, rev_comp of a valid k-mer  *)
(* is the packed k-mer of its bases reversed and complemented, is again a   *)
(* valid k-mer, and rev_comp of rev_comp gives the k-mer back; to_chars of  *)
(* it spells the reverse complement of the input string.                    *)
C6_RevComp ==
    (ValidConfig /\ Len(trail) >= 2) =>
        /\ Last(trail) = "rev_comp" =>
              /\ ~aborted
              /\ IsKmer(K, prev)
              /\ kmer = RevCompOf(K, prev)
              /\ IsKmer(K, kmer)
        /\ trail = <<"from_chars", "rev_comp">> =>
              kmer = Pack(K, RevCompBases([j \in 1..K |-> CodeOf(bytes[j])]))
        /\ trail = <<"from_chars", "rev_comp", "rev_comp">> => kmer = src
        /\ trail = <<"from_chars", "rev_comp", "to_chars">> =>
              call.res = [j \in 1..K |-> CharOf(3 - CodeOf(bytes[K + 1 - j]))]

C6_Witness ==
    /\ W = 128 /\ K = 64
    /\ trail = <<"from_chars", "rev_comp", "rev_comp">>
    /\ kmer = src /\ prev # src
    /\ 2 * K - 1 \in prev

(* C7: canonical(x) is the numerically smaller of x and rev_comp(x),        *)
(* canonical(canonical(x)) = canonical(x), and canonical(rev_comp(x)) =     *)
(* canonical(x).                                                            *)
C7_Canonical ==
    (ValidConfig /\ Len(trail) >= 2) =>
        /\ Last(trail) = "canonical" =>
              /\ ~aborted
              /\ kmer = Smaller(prev, RevCompOf(K, prev))
        /\ trail = <<"from_chars", "canonical", "canonical">> => kmer = prev
        /\ trail = <<"from_chars", "rev_comp", "canonical">> =>
              kmer = Smaller(src, RevCompOf(K, src))

C7_Witness ==
    /\ W = 64 /\ K = 32
    /\ trail = <<"from_chars", "rev_comp", "canonical">>
    /\ kmer = src /\ kmer # prev

(* C8: for every K with 2K <= W, the full width 2K = W included, append(x,  *)
(* b) completes and is (4x + b) mod 2^(2K).                                 *)
C8_Append ==
    (ValidConfig /\ Len(trail) >= 2 /\ Last(trail) = "append") =>
        /\ ~aborted
        /\ kmer = SlideOf(K, prev, call.base)

(* C10: 2K <= W is validated at construction: for 2K > W constructing a     *)
(* k-mer aborts, so no k-mer exists for an invalid (K, W).                  *)
C10_Validated == 2 * K > W => (trail # <<>> => aborted)

(* C9: from_char and to_char are inverse on the four bases, every other     *)
(* byte decodes to None, and to_char of a code outside 0..3 aborts.         *)
C9_RoundTrip ==
    /\ (call.op = "from_char" /\ call.first = NoCall) =>
          (call.res # None <=> call.arg \in ValidChars)
    /\ (call.op = "to_char" /\ call.first # NoCall) => call.res = call.first.arg
    /\ (call.op = "from_char" /\ call.first # NoCall /\ call.first.arg \in 0..3) =>
          call.res = Some(call.first.arg)
C9_Codec ==
    /\ C9_RoundTrip
    /\ (call.op = "to_char" /\ call.arg \notin 0..3) => aborted

(* C5: for L valid bases and 2K <= W, next() yields exactly max(0, L-K+1)   *)
(* k-mers, the i-th the packing of bases i .. i+K-1, and keeps returning    *)
(* None once it has returned None.                                          *)
C5_Tiling ==
    LET L == Len(stream)
        n == IF L - K + 1 > 0 THEN L - K + 1 ELSE 0
    IN (init /\ ValidConfig) =>
          /\ ~aborted
          /\ Len(yielded) <= n
          /\ \A i \in 1..Len(yielded) : yielded[i] = Pack(K, SubSeq(stream, i, i + K - 1))
          /\ nones > 0 => (Len(yielded) = n /\ call.res = None)

(* C1: for each backend and every non-empty set S of inserted keys, in any  *)
(* order and with duplicates, build() completes and the index answers       *)
(* contains(k) = (k in S) for every key k of the universe.                  *)
C1_Membership ==
    inserted # {} =>
        /\ call.op = "build" => (~aborted /\ phase = "built")
        /\ call.op = "contains" => (~aborted /\ call.res = (call.key \in inserted))

C1_Witness ==
    /\ backend = "Sparse" /\ phase = "built" /\ K = 4
    /\ Cardinality(inserted) = 2 /\ ninserts = 3
    /\ call.op = "contains" /\ call.res = TRUE

(* C2: build() directly after new(), with no insert, completes for each     *)
(* backend, and the index contains no key and has no successors.            *)
C2_EmptyBuild ==
    (ninserts = 0 /\ call.op \in {"build", "contains", "successors"}) =>
        /\ ~aborted
        /\ phase = "built"
        /\ call.op = "contains" => call.res = FALSE
        /\ call.op = "successors" => call.res = <<>>

(* C3: once build() has returned an index, only contains and successors     *)
(* can follow, and no operation changes the answer of contains for any key. *)
C3_Immutable ==
    [][phase = "built" =>
          /\ call'.op \in {"contains", "successors"}
          /\ \A key \in 0..(Universe(K) - 1) :
                Dbg_contains(backend, data', from_int(FromNat(W, key)))
                    = Dbg_contains(backend, data, from_int(FromNat(W, key)))]_vars

(* C4: successors(x) is the list of (4x + b) mod 2^(2K) for b = 0, 1, 2, 3, *)
(* in that order, restricted to the keys of the index.                      *)
C4_Successors ==
    call.op = "successors" =>
        /\ ~aborted
        /\ LET present(key) == key \in inserted
           IN call.res = SelectSeq([b \in 1..4 |-> (4 * call.key + (b - 1)) % Universe(K)],
                                   present)

====
